---- MODULE Spec2Model ----
(***************************************************************************)
(* Reptile meta-training on Omniglot: train_omniglot.py as a state machine. *)
(*                                                                         *)
(* Tensors are abstracted to one scalar element per model; its value is an *)
(* exact rational <<num, den>> (floating-point rounding is not modelled).  *)
(* Gradients of the base task, evaluation losses and accuracies depend on  *)
(* sampled images and are drawn from small sets.  The Adam state of the    *)
(* base optimizer is its step counter and its first moment, which with     *)
(* betas = (0, 0.999) is the last gradient.                                *)
(***************************************************************************)
EXTENDS Integers, Sequences, FiniteSets, TLC

VARIABLES
    args,            \* parsed command line (argparse namespace)
    files,           \* checkpoint directory: iteration index -> saved checkpoint
    run,             \* number of the process (1 = first launch)
    pc,              \* position of the process in the script
    meta_net,        \* Meta-Model parameter element
    meta_optimizer,  \* SGD on meta_net: [lr]
    info,            \* Metrics Ledger: metric name -> (iteration -> value)
    state,           \* carried base-optimizer state_dict, or None
    next_iteration,  \* cursor of xrange(start_meta_iteration, meta_iterations)
    meta_iteration,  \* loop variable of the main loop
    meta_lr,         \* rate computed at the top of the loop body
    net,             \* Task-Local Model parameter element
    optimizer,       \* Adam on net
    train,           \* last sampled train task [classes, shots]
    test,            \* last sampled test task [classes, shots]
    train_iter,      \* make_infinite(DataLoader(train, ...)) generator
    test_iter,       \* make_infinite(DataLoader(test, ...)) generator
    mode,            \* index into [(meta_train,'train'), (meta_test,'val')]
    iteration,       \* loop variable of do_learning
    batch_len,       \* number of examples of the last mini-batch drawn
    hist             \* history of the process: old, adapted, captured, evals
                     \* of the current meta-iteration; updated, learned: the
                     \* indices interpolated / adapted so far; calls: the
                     \* do_learning calls completed on the current net

vars == <<args, files, run, pc, meta_net, meta_optimizer, info, state,
          next_iteration, meta_iteration, meta_lr, net, optimizer, train,
          test, train_iter, test_iter, mode, iteration, batch_len, hist>>

---------------------------------------------------------------------------
(* Bounds of the model *)

\* longest run of the main loop: meta_iterations - start_meta_iteration
MaxRunLength == 3
\* number of processes launched one after the other (1 fresh + resumed ones)
MaxRuns == 2
\* number of next() calls made on a generator in the batch-iterator model
MaxDraws == 5
\* largest dataset handed to a DataLoader in the batch-iterator model
MaxTaskLen == 5

(* Program constants *)

\* --check-every default
CheckEveryDefault == 1000
\* test_K of the evaluation task split
TestShots == 5

---------------------------------------------------------------------------
(* Exact rationals <<num, den>>, den > 0, in lowest terms *)

Abs(x) == IF x < 0 THEN -x ELSE x

RECURSIVE Gcd(_, _)
Gcd(a, b) == IF b = 0 THEN a ELSE Gcd(b, a % b)

Rat(n, d) ==
    LET g == Gcd(Abs(n), Abs(d))
        s == IF d < 0 THEN -1 ELSE 1
    IN  <<(s * n) \div g, (s * d) \div g>>

FromInt(i) == <<i, 1>>
RAdd(x, y) == Rat(x[1] * y[2] + y[1] * x[2], x[2] * y[2])
RSub(x, y) == Rat(x[1] * y[2] - y[1] * x[2], x[2] * y[2])
RMul(x, y) == Rat(x[1] * y[1], x[2] * y[2])
RLe(x, y) == x[1] * y[2] <= y[1] * x[2]
RLt(x, y) == x[1] * y[2] < y[1] * x[2]
Zero == FromInt(0)
One == FromInt(1)
Half == <<1, 2>>

---------------------------------------------------------------------------
(* Values *)

\* Python's None for the carried optimizer state
None == [none |-> TRUE, step |-> 0, exp_avg |-> 0]
\* state of a freshly constructed Adam: no step taken
EmptyAdam == [none |-> FALSE, step |-> 0, exp_avg |-> 0]

\* args.resume: '' (no resume), or the path of check-<k>.pth
NoResume == -1
\* loop variable not yet bound
Unbound == -1

\* gradient signs of one base step
Grads == {-1, 1}
\* (loss, accuracy) of one evaluation batch
Scores == {<<0, 1>>, <<1, 0>>}

NoTask == [classes |-> 0, shots |-> 0]
NoIter == [n |-> 0, b |-> 1, at |-> "while", pos |-> 0, wrapped |-> FALSE]
NoHist == [old |-> Zero, adapted |-> Zero, captured |-> None,
           evals |-> << >>, updated |-> << >>, learned |-> << >>,
           calls |-> 0]

---------------------------------------------------------------------------
(* Command line *)

\* --check-every has no type=int: a supplied value stays a string
CheckEveryValues ==
    {[type |-> "int", val |-> CheckEveryDefault], [type |-> "str", val |-> 2]}

\* --start-meta-iteration: a fresh start, or just below the first non-zero
\* multiple of the default checkpoint cadence
Starts == {0, CheckEveryDefault - 1}

\* the argument parser's namespace, before the train_shots fix-up
ArgSpace ==
    [classes : {1, 2},
     shots : {0, 1, 2},
     train_shots : {0, 1, 3},
     meta_iterations : {s + k : s \in Starts, k \in 0 .. MaxRunLength} \ {0},
     start_meta_iteration : Starts,
     iterations : {1, 2},
     test_iterations : {1, 2},
     batch : {1, 2},
     meta_lr : {Zero, Half, One},
     validate_every : {1, 2},
     check_every : CheckEveryValues,
     resume : {NoResume, 0}]

\* the slice of the argument space explored: runs of at most MaxRunLength
\* meta-iterations; the data options vary with the schedule options at
\* their base values and the other way round
BaseData(a) ==
    /\ a.classes = 1 /\ a.shots = 1 /\ a.train_shots = 3 /\ a.batch = 2
    /\ a.iterations = 2 /\ a.test_iterations = 1
BaseSchedule(a) ==
    /\ a.meta_iterations = 2 /\ a.start_meta_iteration = 0
    /\ a.meta_lr = Half /\ a.validate_every = 1
    /\ a.check_every.type = "int" /\ a.resume = NoResume
Explored(a) ==
    /\ a.meta_iterations - a.start_meta_iteration <= MaxRunLength
    /\ BaseData(a) \/ BaseSchedule(a)

\* lines 62-64
parse_args(a) ==
    IF a.train_shots <= 0 THEN [a EXCEPT !.train_shots = a.shots] ELSE a

Args == {parse_args(a) : a \in {x \in ArgSpace : Explored(x)}}

---------------------------------------------------------------------------
(* torch.utils.data.DataLoader(task, batch, shuffle=True) and make_infinite *)

\* len(DataLoader): batches of one pass over n examples (drop_last=False)
DataLoaderLen(n, b) == (n + b - 1) \div b

\* a loader that hands out full batches only
BatchLen_Full(n, b, k) == b

\* number of examples of the k-th batch of a pass (k from 0)
BatchLen(n, b, k) == IF (k + 1) * b <= n THEN b ELSE n - k * b

\* len(task) of a sampled task: shots images of each class
TaskLen(task) == task.classes * task.shots

\* the generator object over a DataLoader of n examples in batches of b, not
\* yet run.  at is the statement the generator is suspended at or about to
\* run: the while of line 18 (a pass is about to be started) or the for of
\* line 19 (pos batches of the pass have been yielded); wrapped records that
\* a pass has been exhausted
Generator(n, b) == [n |-> n, b |-> b, at |-> "while", pos |-> 0,
                    wrapped |-> FALSE]

\* make_infinite(DataLoader(task, b, shuffle=True))
make_infinite(task, b) == Generator(TaskLen(task), b)

\* the generator without its outer while: an exhausted pass is the end
GenResume_NoRestart(it) ==
    IF it.at = "while"
    THEN [it |-> [it EXCEPT !.at = "for", !.pos = 0], yielded |-> FALSE,
          len |-> 0]
    ELSE IF it.pos < DataLoaderLen(it.n, it.b)
    THEN [it |-> [it EXCEPT !.pos = @ + 1], yielded |-> TRUE,
          len |-> BatchLen(it.n, it.b, it.pos)]
    ELSE [it |-> it, yielded |-> FALSE, len |-> 0]

\* one step of the generator body: the while starts a pass (a new iterator
\* over the dataloader); the for yields the next batch of the pass, or is
\* exhausted and control goes back to the while
GenResume(it) ==
    IF it.at = "while"
    THEN [it |-> [it EXCEPT !.at = "for", !.pos = 0], yielded |-> FALSE,
          len |-> 0]
    ELSE IF it.pos < DataLoaderLen(it.n, it.b)
    THEN [it |-> [it EXCEPT !.pos = @ + 1], yielded |-> TRUE,
          len |-> BatchLen(it.n, it.b, it.pos)]
    ELSE [it |-> [it EXCEPT !.at = "while", !.wrapped = TRUE],
          yielded |-> FALSE, len |-> 0]

\* generator.next(): runs the generator to its next yield.  From the while,
\* or from the for with batches left, a yield comes within two steps; from
\* an exhausted for within three.  A generator that has not yielded after
\* four steps has found two passes in a row exhausted at once: its
\* dataloader has no batch, it spins between the while and the for, and
\* next() never returns (returned = FALSE)
GenNext(it) ==
    LET r1 == GenResume(it)
        r2 == GenResume(r1.it)
        r3 == GenResume(r2.it)
        r4 == GenResume(r3.it)
        Ret(r) == [it |-> r.it, returned |-> TRUE, len |-> r.len]
    IN  IF r1.yielded THEN Ret(r1)
        ELSE IF r2.yielded THEN Ret(r2)
        ELSE IF r3.yielded THEN Ret(r3)
        ELSE IF r4.yielded THEN Ret(r4)
        ELSE [it |-> r4.it, returned |-> FALSE, len |-> 0]

---------------------------------------------------------------------------
(* Models and optimizers *)

\* Adam.step() with gradient sign g: the parameter moves against it, the
\* step counter advances, exp_avg (beta1 = 0) becomes g
AdamStep(opt, g) == [none |-> FALSE, step |-> opt.step + 1, exp_avg |-> g]

\* lines 142-146: load_state_dict works on a deep copy of the given state
get_optimizer(st) == IF st.none THEN EmptyAdam ELSE st

\* optimizer.state_dict()
state_dict(opt) == opt

\* lines 149-151
set_learning_rate(opt, lr) == [opt EXCEPT !.lr = lr]

\* ReptileModel.point_grad_to(target): the gradient slot becomes self - target
point_grad_to(p, target) == RSub(p, target)

\* SGD.step() without momentum: p <- p - lr * p.grad
SGDStep(p, grad, opt) == RSub(p, RMul(opt.lr, grad))

\* the schedule with the sign of the annealing term flipped
MetaLrSchedule_Rising(a, i) ==
    RMul(a.meta_lr, RAdd(One, FromInt(i \div a.meta_iterations)))

\* line 178 under Python 2: meta_iteration/args.meta_iterations divides two
\* ints and floors
MetaLrSchedule(a, i) ==
    RMul(a.meta_lr, RSub(One, FromInt(i \div a.meta_iterations)))

\* what line 236 stores under 'meta_net': the module object itself
SavedMetaNet(p) == [kind |-> "Module", params |-> p]

\* Module.load_state_dict(x) iterates x.items(): only a mapping has them, a
\* Module raises AttributeError
HasItems(x) == x.kind = "state_dict"

\* int % x: TypeError unless x is a number
CanMod(x) == x.type = "int"

---------------------------------------------------------------------------
(* Initial state: lines 155-160 executed, nothing on disk *)

Fresh(a) ==
    /\ args = a
    /\ pc = "start"
    /\ meta_net = Zero
    /\ meta_optimizer = [lr |-> a.meta_lr]
    /\ info = << >>
    /\ state = None
    /\ next_iteration = Unbound
    /\ meta_iteration = Unbound
    /\ meta_lr = Zero
    /\ net = Zero
    /\ optimizer = EmptyAdam
    /\ train = NoTask
    /\ test = NoTask
    /\ train_iter = NoIter
    /\ test_iter = NoIter
    /\ mode = 0
    /\ iteration = 0
    /\ batch_len = 0
    /\ hist = NoHist

Init ==
    /\ \E a \in Args : Fresh(a)
    /\ files = << >>
    /\ run = 1

---------------------------------------------------------------------------
(* Metrics Ledger *)

\* info.setdefault(name, {})
SetDefault(f, name) == IF name \in DOMAIN f THEN f ELSE (name :> << >>) @@ f

\* info[name][i] = v
Put(f, name, i, v) == [f EXCEPT ![name] = (i :> v) @@ f[name]]

\* lines 215-223
Log(f, md, i, score, lr) ==
    LET loss_ == IF md = 0 THEN "train_loss" ELSE "val_loss"
        accuracy_ == IF md = 0 THEN "train_accuracy" ELSE "val_accuracy"
        f3 == SetDefault(SetDefault(SetDefault(f, loss_), accuracy_), "meta_lr")
    IN  Put(Put(Put(f3, loss_, i, score[1]), accuracy_, i, score[2]),
            "meta_lr", i, lr)

---------------------------------------------------------------------------
(* Startup *)

\* the resume block skipping a path that is no file instead of asserting
ResumeBlock_NoAssert ==
    /\ pc = "start"
    /\ IF args.resume = NoResume \/ args.resume \notin DOMAIN files
       THEN /\ pc' = "loop"
            /\ next_iteration' = args.start_meta_iteration
            /\ UNCHANGED <<args, meta_net, meta_optimizer, state, info>>
       ELSE LET checkpoint == files[args.resume] IN
            IF ~HasItems(checkpoint.meta_net)
            THEN /\ pc' = "crashed"
                 /\ UNCHANGED <<args, meta_net, meta_optimizer, state, info,
                                next_iteration>>
            ELSE /\ meta_net' = checkpoint.meta_net.params
                 /\ meta_optimizer' = checkpoint.meta_optimizer
                 /\ state' = checkpoint.optimizer
                 /\ args' = [args EXCEPT !.start_meta_iteration =
                                             checkpoint.meta_iteration]
                 /\ info' = checkpoint.info
                 /\ next_iteration' = checkpoint.meta_iteration
                 /\ pc' = "loop"
    /\ UNCHANGED <<files, run, meta_iteration, meta_lr, net, optimizer, train,
                   test, train_iter, test_iter, mode, iteration, batch_len,
                   hist>>

\* lines 163-171, then the loop's xrange is built (line 175)
ResumeBlock ==
    /\ pc = "start"
    /\ IF args.resume = NoResume
       THEN /\ pc' = "loop"
            /\ next_iteration' = args.start_meta_iteration
            /\ UNCHANGED <<args, meta_net, meta_optimizer, state, info>>
       ELSE IF args.resume \notin DOMAIN files
       THEN \* assert os.path.isfile(args.resume)
            /\ pc' = "crashed"
            /\ UNCHANGED <<args, meta_net, meta_optimizer, state, info,
                           next_iteration>>
       ELSE LET checkpoint == files[args.resume] IN
            IF ~HasItems(checkpoint.meta_net)
            THEN \* meta_net.load_state_dict raises on line 167
                 /\ pc' = "crashed"
                 /\ UNCHANGED <<args, meta_net, meta_optimizer, state, info,
                                next_iteration>>
            ELSE /\ meta_net' = checkpoint.meta_net.params
                 /\ meta_optimizer' = checkpoint.meta_optimizer
                 /\ state' = checkpoint.optimizer
                 /\ args' = [args EXCEPT !.start_meta_iteration =
                                             checkpoint.meta_iteration]
                 /\ info' = checkpoint.info
                 /\ next_iteration' = checkpoint.meta_iteration
                 /\ pc' = "loop"
    /\ UNCHANGED <<files, run, meta_iteration, meta_lr, net, optimizer, train,
                   test, train_iter, test_iter, mode, iteration, batch_len,
                   hist>>

---------------------------------------------------------------------------
(* Main loop *)

\* a loop that takes the same index again each time round
UpdateLearningRate_NoAdvance ==
    /\ pc = "loop"
    /\ next_iteration < args.meta_iterations
    /\ meta_iteration' = next_iteration
    /\ next_iteration' = next_iteration
    /\ meta_lr' = MetaLrSchedule(args, next_iteration)
    /\ meta_optimizer' =
           set_learning_rate(meta_optimizer,
                             MetaLrSchedule(args, next_iteration))
    /\ hist' = [hist EXCEPT !.evals = << >>]
    /\ pc' = "clone"
    /\ UNCHANGED <<args, files, run, meta_net, info, state, net, optimizer,
                   train, test, train_iter, test_iter, mode, iteration,
                   batch_len>>

\* lines 175-179: the next index is taken and the rate is set
UpdateLearningRate ==
    /\ pc = "loop"
    /\ next_iteration < args.meta_iterations
    /\ meta_iteration' = next_iteration
    /\ next_iteration' = next_iteration + 1
    /\ meta_lr' = MetaLrSchedule(args, next_iteration)
    /\ meta_optimizer' =
           set_learning_rate(meta_optimizer,
                             MetaLrSchedule(args, next_iteration))
    /\ hist' = [hist EXCEPT !.evals = << >>]
    /\ pc' = "clone"
    /\ UNCHANGED <<args, files, run, meta_net, info, state, net, optimizer,
                   train, test, train_iter, test_iter, mode, iteration,
                   batch_len>>

\* line 175: the xrange is exhausted
LoopExit ==
    /\ pc = "loop"
    /\ next_iteration >= args.meta_iterations
    /\ pc' = "done"
    /\ UNCHANGED <<args, files, run, meta_net, meta_optimizer, info, state,
                   next_iteration, meta_iteration, meta_lr, net, optimizer,
                   train, test, train_iter, test_iter, mode, iteration,
                   batch_len, hist>>

\* OmniglotModel.clone(): a new model holding a copy of the parameters
clone(p) == p

\* lines 181-183
CloneModel ==
    /\ pc = "clone"
    /\ net' = clone(meta_net)
    /\ optimizer' = get_optimizer(state)
    /\ hist' = [hist EXCEPT !.calls = 0]
    /\ pc' = "sample"
    /\ UNCHANGED <<args, files, run, meta_net, meta_optimizer, info, state,
                   next_iteration, meta_iteration, meta_lr, train, test,
                   train_iter, test_iter, mode, iteration, batch_len>>

\* line 187: get_random_task(args.classes, args.train_shots)
BaseTask == [classes |-> args.classes, shots |-> args.train_shots]

\* lines 186-188, and the call of do_learning on line 191
SampleBaseTask ==
    /\ pc = "sample"
    /\ train' = BaseTask
    /\ train_iter' = make_infinite(train', args.batch)
    /\ iteration' = 0
    /\ pc' = "learn"
    /\ UNCHANGED <<args, files, run, meta_net, meta_optimizer, info, state,
                   next_iteration, meta_iteration, meta_lr, net, optimizer,
                   test, test_iter, mode, batch_len, hist>>

\* number of base steps of the running do_learning call (lines 191, 209)
Steps == IF pc = "learn" THEN args.iterations ELSE args.test_iterations

\* do_learning on the Meta-Model itself during the main inner loop: net is
\* meta_net, not a copy of it
DoLearningStep_Aliased ==
    /\ pc \in {"learn", "eval_learn"}
    /\ iteration < Steps
    /\ LET drawn == GenNext(train_iter) IN
       /\ train_iter' = drawn.it
       /\ IF drawn.returned
          THEN \E g \in Grads :
                  /\ net' = RSub(net, FromInt(g))
                  /\ meta_net' = IF pc = "learn" THEN net' ELSE meta_net
                  /\ optimizer' = AdamStep(optimizer, g)
                  /\ batch_len' = drawn.len
                  /\ iteration' = iteration + 1
                  /\ pc' = pc
          ELSE /\ pc' = "hung"
               /\ UNCHANGED <<net, meta_net, optimizer, batch_len, iteration>>
    /\ UNCHANGED <<args, files, run, meta_optimizer, info, state,
                   next_iteration, meta_iteration, meta_lr, train, test,
                   test_iter, mode, hist>>

\* lines 99-112: one pass of do_learning's loop
DoLearningStep ==
    /\ pc \in {"learn", "eval_learn"}
    /\ iteration < Steps
    /\ LET drawn == GenNext(train_iter) IN
       /\ train_iter' = drawn.it
       /\ IF drawn.returned
          THEN \E g \in Grads :
                  /\ net' = RSub(net, FromInt(g))
                  /\ optimizer' = AdamStep(optimizer, g)
                  /\ batch_len' = drawn.len
                  /\ iteration' = iteration + 1
                  /\ pc' = pc
          ELSE /\ pc' = "hung"
               /\ UNCHANGED <<net, optimizer, batch_len, iteration>>
    /\ UNCHANGED <<args, files, run, meta_net, meta_optimizer, info, state,
                   next_iteration, meta_iteration, meta_lr, train, test,
                   test_iter, mode, hist>>

\* lines 114, 191-192: do_learning returns, the optimizer state is captured
SaveOptimizerState ==
    /\ pc = "learn"
    /\ iteration = Steps
    /\ state' = state_dict(optimizer)
    /\ hist' = [hist EXCEPT !.adapted = net,
                            !.captured = state_dict(optimizer),
                            !.learned = Append(@, meta_iteration),
                            !.calls = @ + 1]
    /\ pc' = "update"
    /\ UNCHANGED <<args, files, run, meta_net, meta_optimizer, info,
                   next_iteration, meta_iteration, meta_lr, net, optimizer,
                   train, test, train_iter, test_iter, mode, iteration,
                   batch_len>>

\* the gradient pointed the wrong way round: net.point_grad_to(meta_net)
\* leaves meta_net's gradient slots at the displacement from net to meta_net
UpdateSlowNet_Swapped ==
    /\ pc = "update"
    /\ meta_net' = SGDStep(meta_net, point_grad_to(net, meta_net),
                           meta_optimizer)
    /\ hist' = [hist EXCEPT !.old = meta_net,
                            !.updated = Append(@, meta_iteration)]
    /\ pc' = "validate"
    /\ UNCHANGED <<args, files, run, meta_optimizer, info, state,
                   next_iteration, meta_iteration, meta_lr, net, optimizer,
                   train, test, train_iter, test_iter, mode, iteration,
                   batch_len>>

\* lines 194-196
UpdateSlowNet ==
    /\ pc = "update"
    /\ meta_net' = SGDStep(meta_net, point_grad_to(meta_net, net),
                           meta_optimizer)
    /\ hist' = [hist EXCEPT !.old = meta_net,
                            !.updated = Append(@, meta_iteration)]
    /\ pc' = "validate"
    /\ UNCHANGED <<args, files, run, meta_optimizer, info, state,
                   next_iteration, meta_iteration, meta_lr, net, optimizer,
                   train, test, train_iter, test_iter, mode, iteration,
                   batch_len>>

---------------------------------------------------------------------------
(* Meta-evaluation *)

\* the cadence test counting iterations from 1
MetaEvaluation_OffByOne ==
    /\ pc = "validate"
    /\ IF (meta_iteration + 1) % args.validate_every = 0
       THEN mode' = 0 /\ pc' = "eval_sample"
       ELSE mode' = mode /\ pc' = "check"
    /\ UNCHANGED <<args, files, run, meta_net, meta_optimizer, info, state,
                   next_iteration, meta_iteration, meta_lr, net, optimizer,
                   train, test, train_iter, test_iter, iteration, batch_len,
                   hist>>

\* lines 199-200: evaluation runs on the validate_every cadence
MetaEvaluation ==
    /\ pc = "validate"
    /\ IF meta_iteration % args.validate_every = 0
       THEN mode' = 0 /\ pc' = "eval_sample"
       ELSE mode' = mode /\ pc' = "check"
    /\ UNCHANGED <<args, files, run, meta_net, meta_optimizer, info, state,
                   next_iteration, meta_iteration, meta_lr, net, optimizer,
                   train, test, train_iter, test_iter, iteration, batch_len,
                   hist>>

\* the evaluation split sampled with the main loop's number of shots
EvalTaskSplit_TrainShots ==
    [train |-> [classes |-> args.classes, shots |-> args.train_shots],
     test |-> [classes |-> args.classes, shots |-> TestShots]]

\* line 202: get_random_task_split(args.classes, train_K=args.shots, test_K=5)
EvalTaskSplit ==
    [train |-> [classes |-> args.classes, shots |-> args.shots],
     test |-> [classes |-> args.classes, shots |-> TestShots]]

\* lines 202-208, and the call of do_learning on line 209
EvalSampleTask ==
    /\ pc = "eval_sample"
    /\ train' = EvalTaskSplit.train
    /\ test' = EvalTaskSplit.test
    /\ train_iter' = make_infinite(train', args.batch)
    /\ test_iter' = make_infinite(test', args.batch)
    /\ net' = clone(meta_net)
    /\ optimizer' = get_optimizer(state)
    /\ hist' = [hist EXCEPT !.calls = 0]
    /\ iteration' = 0
    /\ pc' = "eval_learn"
    /\ UNCHANGED <<args, files, run, meta_net, meta_optimizer, info, state,
                   next_iteration, meta_iteration, meta_lr, mode, batch_len>>

\* the evaluation branch saving its optimizer state as line 192 does
DoEvaluation_SavesState ==
    /\ pc = "eval_learn"
    /\ iteration = Steps
    /\ state' = state_dict(optimizer)
    /\ LET drawn == GenNext(test_iter) IN
       /\ test_iter' = drawn.it
       /\ IF drawn.returned
          THEN \E score \in Scores :
                  /\ info' = Log(info, mode, meta_iteration, score, meta_lr)
                  /\ batch_len' = drawn.len
                  /\ hist' = [hist EXCEPT !.evals = Append(@, mode),
                                          !.calls = @ + 1]
                  /\ IF mode = 0
                     THEN mode' = 1 /\ pc' = "eval_sample"
                     ELSE mode' = mode /\ pc' = "check"
          ELSE /\ pc' = "hung_eval"
               /\ UNCHANGED <<info, batch_len, mode, hist>>
    /\ UNCHANGED <<args, files, run, meta_net, meta_optimizer,
                   next_iteration, meta_iteration, meta_lr, net, optimizer,
                   train, test, train_iter, iteration>>

\* lines 209-231: do_learning returns, do_evaluation scores one test batch,
\* the scores are logged, and the for over the two pools moves on
DoEvaluation ==
    /\ pc = "eval_learn"
    /\ iteration = Steps
    /\ LET drawn == GenNext(test_iter) IN
       /\ test_iter' = drawn.it
       /\ IF drawn.returned
          THEN \E score \in Scores :
                  /\ info' = Log(info, mode, meta_iteration, score, meta_lr)
                  /\ batch_len' = drawn.len
                  /\ hist' = [hist EXCEPT !.evals = Append(@, mode),
                                          !.calls = @ + 1]
                  /\ IF mode = 0
                     THEN mode' = 1 /\ pc' = "eval_sample"
                     ELSE mode' = mode /\ pc' = "check"
          ELSE /\ pc' = "hung_eval"
               /\ UNCHANGED <<info, batch_len, mode, hist>>
    /\ UNCHANGED <<args, files, run, meta_net, meta_optimizer, state,
                   next_iteration, meta_iteration, meta_lr, net, optimizer,
                   train, test, train_iter, iteration>>

---------------------------------------------------------------------------
(* Checkpoints *)

\* lines 235-241
MakeCheckpoint ==
    [meta_net |-> SavedMetaNet(meta_net),
     meta_optimizer |-> meta_optimizer,
     optimizer |-> state,
     meta_iteration |-> meta_iteration,
     info |-> info]

\* the cadence test of the checkpoint counting iterations from 1
Checkpoint_OffByOne ==
    /\ pc = "check"
    /\ IF ~CanMod(args.check_every)
       THEN pc' = "crashed" /\ files' = files
       ELSE /\ pc' = "loop"
            /\ files' = IF (meta_iteration + 1) % args.check_every.val = 0
                        THEN (meta_iteration :> MakeCheckpoint) @@ files
                        ELSE files
    /\ UNCHANGED <<args, run, meta_net, meta_optimizer, info, state,
                   next_iteration, meta_iteration, meta_lr, net, optimizer,
                   train, test, train_iter, test_iter, mode, iteration,
                   batch_len, hist>>

\* lines 233-244
Checkpoint ==
    /\ pc = "check"
    /\ IF ~CanMod(args.check_every)
       THEN pc' = "crashed" /\ files' = files
       ELSE /\ pc' = "loop"
            /\ files' = IF meta_iteration % args.check_every.val = 0
                        THEN (meta_iteration :> MakeCheckpoint) @@ files
                        ELSE files
    /\ UNCHANGED <<args, run, meta_net, meta_optimizer, info, state,
                   next_iteration, meta_iteration, meta_lr, net, optimizer,
                   train, test, train_iter, test_iter, mode, iteration,
                   batch_len, hist>>

---------------------------------------------------------------------------
(* A later process, started on the same command line with --resume naming  *)
(* a checkpoint the earlier one wrote; the earlier process has exited or   *)
(* was terminated from outside, at any point                               *)

Relaunch ==
    /\ run < MaxRuns
    /\ \E k \in DOMAIN files :
          /\ args' = [args EXCEPT !.resume = k]
          /\ meta_optimizer' = [lr |-> args.meta_lr]
    /\ run' = run + 1
    /\ pc' = "start"
    /\ meta_net' = Zero
    /\ info' = << >>
    /\ state' = None
    /\ next_iteration' = Unbound
    /\ meta_iteration' = Unbound
    /\ meta_lr' = Zero
    /\ net' = Zero
    /\ optimizer' = EmptyAdam
    /\ train' = NoTask
    /\ test' = NoTask
    /\ train_iter' = NoIter
    /\ test_iter' = NoIter
    /\ mode' = 0
    /\ iteration' = 0
    /\ batch_len' = 0
    /\ hist' = NoHist
    /\ UNCHANGED files

\* lines 18-19 with no batch in the dataloader: the generator called by
\* do_learning (pc = "hung") or do_evaluation (pc = "hung_eval") goes round
\* its while and its for without yielding
Spin ==
    /\ pc \in {"hung", "hung_eval"}
    /\ IF pc = "hung"
       THEN train_iter' = GenResume(train_iter).it /\ test_iter' = test_iter
       ELSE test_iter' = GenResume(test_iter).it /\ train_iter' = train_iter
    /\ UNCHANGED <<args, files, run, pc, meta_net, meta_optimizer, info,
                   state, next_iteration, meta_iteration, meta_lr, net,
                   optimizer, train, test, mode, iteration, batch_len, hist>>

\* one step of the running process
Step ==
    \/ ResumeBlock
    \/ UpdateLearningRate
    \/ LoopExit
    \/ CloneModel
    \/ SampleBaseTask
    \/ DoLearningStep
    \/ SaveOptimizerState
    \/ UpdateSlowNet
    \/ MetaEvaluation
    \/ EvalSampleTask
    \/ DoEvaluation
    \/ Checkpoint
    \/ Spin

Next ==
    \/ ResumeBlock
    \/ UpdateLearningRate
    \/ LoopExit
    \/ CloneModel
    \/ SampleBaseTask
    \/ DoLearningStep
    \/ SaveOptimizerState
    \/ UpdateSlowNet
    \/ MetaEvaluation
    \/ EvalSampleTask
    \/ DoEvaluation
    \/ Checkpoint
    \/ Spin
    \/ Relaunch

Spec == Init /\ [][Next]_vars

\* one process from launch to its end, never terminated from outside: the
\* script is one thread that runs without pause
RunSpec == Init /\ [][Step]_vars /\ WF_vars(Step)

---------------------------------------------------------------------------
(* The batch iterator on its own: a caller draws MaxDraws batches from     *)
(* make_infinite over a DataLoader of n examples in batches of b.  The     *)
(* script is one thread that runs without pause, so a step that can be     *)
(* taken is taken.                                                         *)

IterInit ==
    /\ \E n \in 0 .. MaxTaskLen, b \in 1 .. MaxTaskLen :
          train_iter = Generator(n, b)
    /\ pc = "caller"
    /\ iteration = 0
    /\ batch_len = 0
    /\ args = CHOOSE a \in Args : BaseData(a) /\ BaseSchedule(a)
    /\ files = << >>
    /\ run = 1
    /\ meta_net = Zero
    /\ meta_optimizer = [lr |-> Zero]
    /\ info = << >>
    /\ state = None
    /\ next_iteration = Unbound
    /\ meta_iteration = Unbound
    /\ meta_lr = Zero
    /\ net = Zero
    /\ optimizer = EmptyAdam
    /\ train = NoTask
    /\ test = NoTask
    /\ test_iter = NoIter
    /\ mode = 0
    /\ hist = NoHist

\* line 101: train_iter.next() is called; the caller waits for the batch
CallNext ==
    /\ pc = "caller"
    /\ iteration < MaxDraws
    /\ pc' = "generator"
    /\ UNCHANGED <<args, files, run, meta_net, meta_optimizer, info, state,
                   next_iteration, meta_iteration, meta_lr, net, optimizer,
                   train, test, train_iter, test_iter, mode, iteration,
                   batch_len, hist>>

\* lines 17-20: the generator runs one step; a yield hands the batch to the
\* caller
GeneratorStep ==
    /\ pc = "generator"
    /\ LET r == GenResume(train_iter) IN
       /\ train_iter' = r.it
       /\ IF r.yielded
          THEN /\ pc' = "caller"
               /\ batch_len' = r.len
               /\ iteration' = iteration + 1
          ELSE UNCHANGED <<pc, batch_len, iteration>>
    /\ UNCHANGED <<args, files, run, meta_net, meta_optimizer, info, state,
                   next_iteration, meta_iteration, meta_lr, net, optimizer,
                   train, test, test_iter, mode, hist>>

IterNext == CallNext \/ GeneratorStep

IterSpec == IterInit /\ [][IterNext]_vars /\ WF_vars(IterNext)

---------------------------------------------------------------------------
(* Properties *)

\* the body of meta-iteration meta_iteration is being executed, past the
\* interpolate step
PastUpdate == pc \in {"validate", "eval_sample", "eval_learn", "check"}

\* the script was started with --resume naming a checkpoint on disk
ResumedFromFile == args.resume # NoResume /\ args.resume \in DOMAIN files

\* C1: right after the interpolate step the Meta-Model element equals
\* (1 - meta_lr) * old + meta_lr * adapted, with old its value before the
\* step, adapted the Task-Local Model after the main inner loop and meta_lr
\* the rate set on the meta-optimizer; rate 1 gives adapted, rate 0 gives old
C1_Interpolation ==
    pc = "validate" =>
        /\ meta_optimizer.lr = meta_lr
        /\ net = hist.adapted
        /\ meta_net = RAdd(RMul(RSub(One, meta_lr), hist.old),
                           RMul(meta_lr, hist.adapted))
        /\ meta_lr = One => meta_net = hist.adapted
        /\ meta_lr = Zero => meta_net = hist.old

\* C1 witness: an interpolation with a rate strictly between 0 and 1 has
\* moved the Meta-Model strictly between old and adapted
C1_Witness ==
    /\ pc = "validate"
    /\ meta_lr = Half
    /\ hist.old # hist.adapted
    /\ meta_net \notin {hist.old, hist.adapted}
    /\ meta_iteration > args.start_meta_iteration

\* C2: the rate set for meta-iteration i is args.meta_lr * (1 - i/T) with
\* i/T the exact fraction, T = meta_iterations
C2_ExactAnnealing ==
    pc = "clone" =>
        meta_optimizer.lr =
            RMul(args.meta_lr,
                 RSub(One, Rat(meta_iteration, args.meta_iterations)))

\* C3: from the capture on line 192 on, through both evaluation branches
\* and the checkpoint, `state` is the value captured after the main inner
\* loop; the checkpoint of the iteration stores it and the optimizer of the
\* next iteration is loaded from it
C3_StateIsolation ==
    /\ (PastUpdate \/ pc = "update") => state = hist.captured
    /\ (pc \in {"loop", "done"} /\ meta_iteration # Unbound) =>
           /\ state = hist.captured
           /\ (meta_iteration \in DOMAIN files /\ run = 1) =>
                  files[meta_iteration].optimizer = hist.captured
    /\ (pc = "sample" /\ meta_iteration > args.start_meta_iteration) =>
           optimizer = hist.captured

\* C3 witness: both evaluation branches have adapted (their optimizer is
\* ahead of the carried state) and the carried state is the captured one
C3_Witness ==
    /\ pc = "check"
    /\ meta_iteration % args.validate_every = 0
    /\ mode = 1
    /\ ~state.none
    /\ state.step = args.iterations * (meta_iteration + 1
                                       - args.start_meta_iteration)
    /\ optimizer.step = state.step + args.test_iterations

\* C4: a process started with --resume on a checkpoint file gets past the
\* resume block with the saved index, Meta-Model, meta-optimizer state,
\* base-optimizer state and Metrics Ledger in place
C4_RoundTrip ==
    (ResumedFromFile /\ pc # "start") =>
        /\ pc # "crashed"
        /\ (pc = "loop" /\ meta_iteration = Unbound) =>
               /\ next_iteration = files[args.resume].meta_iteration
               /\ meta_net = files[args.resume].meta_net.params
               /\ meta_optimizer = files[args.resume].meta_optimizer
               /\ state = files[args.resume].optimizer
               /\ info = files[args.resume].info

\* C5 as amended: a request for the next batch of a non-empty dataset
\* returns, with a non-empty batch, also when the pass is exhausted
C5_NonEmptyAlwaysReturns ==
    /\ [](pc = "caller" /\ iteration > 0 => batch_len >= 1)
    /\ (pc = "generator" /\ train_iter.n > 0) ~> (pc = "caller")

\* C5 witness: a draw made after a full pass was consumed has returned
C5_Witness ==
    /\ pc = "caller"
    /\ train_iter.n > 0
    /\ train_iter.wrapped
    /\ iteration > DataLoaderLen(train_iter.n, train_iter.b)
    /\ batch_len >= 1

\* C5 as stated: every request for the next batch returns, for every finite
\* dataset
C5_AlwaysReturns == (pc = "generator") ~> (pc = "caller")

\* C6: once the body of an executed meta-iteration i is over, a snapshot
\* named i exists exactly if i % check_every = 0, whether check_every is the
\* default or was supplied, and it holds the Meta-Model, the optimizer
\* states, the index and the Metrics Ledger as they are then
C6_SnapshotCadence ==
    (run = 1 /\ meta_iteration # Unbound
        /\ pc \in {"loop", "done", "crashed"}) =>
        /\ (meta_iteration % args.check_every.val = 0)
               <=> (meta_iteration \in DOMAIN files)
        /\ \A k \in DOMAIN files : k % args.check_every.val = 0
        /\ meta_iteration \in DOMAIN files =>
               /\ files[meta_iteration].meta_net.params = meta_net
               /\ files[meta_iteration].meta_optimizer = meta_optimizer
               /\ files[meta_iteration].optimizer = hist.captured
               /\ files[meta_iteration].meta_iteration = meta_iteration
               /\ files[meta_iteration].info = info

Metrics ==
    {"train_loss", "train_accuracy", "val_loss", "val_accuracy", "meta_lr"}

\* C7: evaluation runs exactly at the meta-iterations i with
\* i % validate_every = 0, after the interpolate step, once on the train
\* pool and once on the val pool; after it every metric has an entry at key
\* i, the meta_lr entry being the rate of i's interpolate step; no metric
\* has an entry at a key that is not a multiple of validate_every
C7_EvaluationCadence ==
    /\ \A name \in DOMAIN info : \A k \in DOMAIN info[name] :
           k % args.validate_every = 0
    /\ pc \in {"eval_sample", "eval_learn"} =>
           meta_iteration % args.validate_every = 0
    /\ pc \in {"clone", "sample", "learn", "update", "validate"} =>
           hist.evals = << >>
    /\ pc = "check" =>
           IF meta_iteration % args.validate_every = 0
           THEN /\ hist.evals = <<0, 1>>
                /\ Metrics \subseteq DOMAIN info
                /\ \A name \in Metrics : meta_iteration \in DOMAIN info[name]
                /\ info["meta_lr"][meta_iteration] = meta_optimizer.lr
           ELSE /\ hist.evals = << >>
                /\ \A name \in DOMAIN info :
                       meta_iteration \notin DOMAIN info[name]

\* C7 witness: with validate_every = 2, evaluation has run at iterations 0
\* and 2 and not at iteration 1
C7_Witness ==
    /\ pc = "check"
    /\ args.validate_every = 2
    /\ meta_iteration = 2
    /\ Metrics \subseteq DOMAIN info
    /\ \A name \in Metrics : DOMAIN info[name] = {0, 2}

\* C8 as amended: the evaluation split has n_classes classes, --shots
\* train-shots per class and 5 test-shots per class, while the main loop's
\* task has --train-shots shots per class
C8_EvaluationShots ==
    /\ pc = "eval_learn" =>
           /\ train = [classes |-> args.classes, shots |-> args.shots]
           /\ test = [classes |-> args.classes, shots |-> 5]
    /\ pc = "learn" =>
           train = [classes |-> args.classes, shots |-> args.train_shots]

\* C8 witness: an evaluation split sampled when --shots and --train-shots
\* differ
C8_Witness ==
    /\ pc = "eval_learn"
    /\ args.shots # args.train_shots
    /\ train.shots = args.shots
    /\ test.shots = 5

\* C8 as stated: the evaluation split has train_shots train-shots per
\* class, the number the main loop uses
C8_EvaluationTrainShots ==
    pc = "eval_learn" =>
        /\ train = [classes |-> args.classes, shots |-> args.train_shots]
        /\ test = [classes |-> args.classes, shots |-> 5]

\* C9: with a --resume path that names no file the process aborts at
\* startup: nothing is loaded, no meta-iteration runs, Meta-Model and
\* Metrics Ledger keep their initial values, no checkpoint is written
C9_MissingResumeAborts ==
    (args.resume # NoResume /\ args.resume \notin DOMAIN files
        /\ pc # "start") =>
        /\ pc = "crashed"
        /\ next_iteration = Unbound
        /\ meta_iteration = Unbound
        /\ meta_net = Zero
        /\ meta_optimizer = [lr |-> args.meta_lr]
        /\ state = None
        /\ info = << >>
        /\ files = << >>

\* C9 witness: a process given a missing resume path has aborted
C9_Witness ==
    /\ pc = "crashed"
    /\ args.resume # NoResume
    /\ args.resume \notin DOMAIN files

\* C10: from one executed meta-iteration to the next the rate in force does
\* not increase, and the schedule at iteration = meta_iterations is 0
C10_RateNeverIncreases ==
    [][(pc = "loop" /\ pc' = "clone") =>
          /\ meta_optimizer'.lr = meta_lr'
          /\ meta_iteration # Unbound =>
                 /\ RLe(meta_lr', meta_lr)
                 /\ RLe(meta_optimizer'.lr, meta_optimizer.lr)
          /\ MetaLrSchedule(args, args.meta_iterations) = Zero]_vars

\* C10 witness: a second meta-iteration of a run with a positive base rate
\* has set its rate
C10_Witness ==
    /\ pc = "clone"
    /\ meta_iteration > args.start_meta_iteration
    /\ RLt(Zero, args.meta_lr)
    /\ meta_optimizer.lr = meta_lr

---------------------------------------------------------------------------
(* Mini-batch sizes *)

\* the step is a draw of do_learning (line 101) that returned
LearningDraw == pc \in {"learn", "eval_learn"} /\ iteration' = iteration + 1

\* the step is the draw of do_evaluation (line 124) that returned
EvaluationDraw == pc = "eval_learn" /\ Len(hist'.evals) = Len(hist.evals) + 1

\* the size of the batch a generator has just yielded, as the claim C11 is
\* amended: args.batch, or the remainder of the task when the batch is the
\* last of a pass and args.batch does not divide the task's size
DrawnSize(it) == IF it.pos * it.b <= it.n THEN it.b ELSE it.n % it.b

\* C11 (amended): every mini-batch drawn from a task has between 1 and
\* args.batch examples: exactly args.batch, except the last batch of a pass
\* over a task whose size args.batch does not divide, which has the
\* remainder (size of the task modulo args.batch)
C11_BatchSizes ==
    [][(LearningDraw =>
          /\ train_iter'.b = args.batch
          /\ batch_len' = DrawnSize(train_iter')
          /\ batch_len' \in 1 .. args.batch)
       /\ (EvaluationDraw =>
             /\ test_iter'.b = args.batch
             /\ batch_len' = DrawnSize(test_iter')
             /\ batch_len' \in 1 .. args.batch)]_vars

\* C11 witness: do_learning has drawn the short last batch of a pass, a
\* second time after the pass was restarted
C11_Witness ==
    /\ pc = "learn"
    /\ iteration = 2
    /\ train_iter.wrapped
    /\ TaskLen(train) % args.batch # 0
    /\ batch_len = TaskLen(train) % args.batch
    /\ batch_len < args.batch

\* C11 as stated: every mini-batch drawn has exactly args.batch examples
\* (batch_len is 0 until a batch is drawn)
C11_FullBatches == batch_len # 0 => batch_len = args.batch

---------------------------------------------------------------------------
(* Metrics Ledger across steps and processes *)

\* every entry (metric name, iteration) of ledger f is in ledger g with the
\* same value
Kept(f, g) ==
    \A name \in DOMAIN f :
        /\ name \in DOMAIN g
        /\ \A i \in DOMAIN f[name] :
               i \in DOMAIN g[name] /\ g[name][i] = f[name][i]

\* C12: an entry of the Metrics Ledger, once recorded, is never removed and
\* never given another value: every step of a process keeps the entries of
\* info, and the resume block of a process resumed from a checkpoint leaves
\* the entries recorded in that checkpoint in info
C12_AppendOnly ==
    [][/\ run' = run => Kept(info, info')
       /\ (ResumedFromFile /\ pc = "start") =>
              Kept(files[args.resume].info, info')]_vars

---------------------------------------------------------------------------
(* Stop after a checkpoint and resume *)

\* how many times index i is in the sequence of indices seq
Times(seq, i) == Cardinality({k \in DOMAIN seq : seq[k] = i})

\* the process has come to its end
Ended == pc \in {"done", "crashed"}

\* C13: a run stopped after the checkpoint of iteration I and resumed from
\* it applies, the original run up to the checkpoint and the resumed run
\* taken together, exactly one interpolation and one main inner-loop
\* adaptation for each index: when the resumed process has ended, every
\* index from I to meta_iterations - 1 has been applied once, I by the
\* original run and the later ones by the resumed one
C13_ResumeContinues ==
    (ResumedFromFile /\ Ended) =>
        LET I == files[args.resume].meta_iteration IN
        \A i \in I .. args.meta_iterations - 1 :
            /\ (IF i = I THEN 1 ELSE 0) + Times(hist.updated, i) = 1
            /\ (IF i = I THEN 1 ELSE 0) + Times(hist.learned, i) = 1

---------------------------------------------------------------------------
(* Frame of the Meta-Model *)

\* the indices whose loop body has reached the given position: all from
\* the start index up to the running one, the running one included once it
\* is past the position
Executed(past) ==
    IF meta_iteration = Unbound THEN << >>
    ELSE [k \in 1 .. (meta_iteration - args.start_meta_iteration
                      + (IF past THEN 1 ELSE 0)) |->
              args.start_meta_iteration + k - 1]

\* the running meta-iteration, if any, is past its interpolate step
Interpolated == PastUpdate \/ pc \in {"loop", "done", "hung_eval", "crashed"}

\* C14: within a process the Meta-Model changes only in the interpolate
\* step (clone, inner-loop adaptation, both evaluation branches and the
\* checkpoint leave it unchanged), the interpolate step has been taken
\* exactly once for every executed meta-iteration, and a Task-Local Model
\* that is replaced by the next clone has had exactly one inner-loop
\* adaptation
C14_MetaModelFrame ==
    [][run' = run =>
         /\ meta_net' # meta_net => (pc = "update" /\ pc' = "validate")
         /\ pc' # "hung" => hist'.updated = Executed(Interpolated)'
         /\ (pc \in {"clone", "eval_sample"} /\ pc' # pc) =>
                (hist.calls = 1 \/ hist.learned = << >>)
         /\ hist'.calls \in {0, 1}]_vars

\* C14 witness: a second meta-iteration has been interpolated, evaluated on
\* both pools and checkpointed; the Meta-Model is the interpolated one and
\* differs from its value before the step and from the last Task-Local
\* Model
C14_Witness ==
    /\ pc = "loop"
    /\ Len(hist.updated) = 2
    /\ hist.evals = <<0, 1>>
    /\ meta_iteration \in DOMAIN files
    /\ meta_net # hist.old
    /\ meta_net # net
    /\ hist.calls = 1

---------------------------------------------------------------------------
(* Warm start of the base optimizer *)

\* C15: the base optimizer is warm-started along the main thread: the first
\* meta-iteration of a fresh process starts from an empty optimizer state,
\* a process resumed from a checkpoint carries the checkpoint's state into
\* its first meta-iteration, every later meta-iteration starts from the
\* state captured at the end of the one before, and after n completed
\* main inner loops of a fresh process the carried state has taken
\* n * iterations base steps
C15_WarmStart ==
    /\ (pc = "sample" /\ args.resume = NoResume
          /\ meta_iteration = args.start_meta_iteration) =>
           optimizer = EmptyAdam
    /\ (ResumedFromFile /\ pc # "start") =>
           /\ state = files[args.resume].optimizer
           /\ (pc = "sample" /\ hist.learned = << >>) =>
                  optimizer = files[args.resume].optimizer
    /\ (pc = "sample" /\ meta_iteration > args.start_meta_iteration) =>
           optimizer = hist.captured
    /\ (args.resume = NoResume /\ pc \in {"update", "loop", "done"}) =>
           IF hist.learned = << >>
           THEN state = None
           ELSE state.step = Len(hist.learned) * args.iterations

---------------------------------------------------------------------------
(* What is on disk when a run finishes *)

\* the greatest index of a non-empty set of indices
Newest(S) == CHOOSE c \in S : \A k \in S : k <= c

\* the indices of the loop at which a checkpoint is due
Due == {k \in args.start_meta_iteration .. args.meta_iterations - 1 :
           k % args.check_every.val = 0}

\* the interpolation updates applied after the one of index c
UpdatesSince(c) == Cardinality({k \in DOMAIN hist.updated : hist.updated[k] > c})

\* C16: when a process started without --resume has finished its loop, the
\* checkpoints on disk are those of the multiples of check_every the loop
\* went through; a run from index 0 with meta_iterations >= 1 has at least
\* one; the newest has index c = the greatest multiple of check_every below
\* meta_iterations, and the Meta-Model in memory is meta_iterations - 1 - c
\* interpolation updates ahead of it, fewer than check_every, and none
\* exactly when (meta_iterations - 1) % check_every = 0
C16_NewestCheckpoint ==
    (pc = "done" /\ run = 1) =>
        LET T == args.meta_iterations
            ce == args.check_every.val
        IN  /\ DOMAIN files = Due
            /\ (args.start_meta_iteration = 0 /\ T >= 1) => files # << >>
            /\ files # << >> =>
                   LET c == Newest(DOMAIN files) IN
                   /\ c % ce = 0 /\ c < T /\ c + ce >= T
                   /\ files[c].meta_iteration = c
                   /\ UpdatesSince(c) = T - 1 - c
                   /\ T - 1 - c < ce
                   /\ (T - 1 - c = 0) <=> ((T - 1) % ce = 0)
                   /\ (T - 1 - c = 0) => files[c].meta_net.params = meta_net

\* C16 witness: a run from index 0 has finished three meta-iterations; its
\* one checkpoint is that of index 0 and the Meta-Model in memory is two
\* updates ahead of the checkpointed one
C16_Witness ==
    /\ pc = "done" /\ run = 1
    /\ args.start_meta_iteration = 0
    /\ args.meta_iterations = 3
    /\ DOMAIN files = {0}
    /\ UpdatesSince(0) = 2
    /\ hist.updated = <<0, 1, 2>>
    /\ files[0].meta_net.params # meta_net

---------------------------------------------------------------------------
(* Termination of a process *)

\* place of a position in the order the loop body goes through them
Stage ==
    CASE pc = "start" -> 0
      [] pc = "clone" -> 1
      [] pc = "sample" -> 2
      [] pc = "learn" -> 3
      [] pc = "update" -> 4
      [] pc = "validate" -> 5
      [] pc = "eval_sample" -> 6 + 2 * mode
      [] pc = "eval_learn" -> 7 + 2 * mode
      [] pc = "check" -> 10
      [] pc = "loop" -> 11
      [] OTHER -> 12

\* how far the process has come: indices taken from the xrange, place in
\* the loop body, base steps taken by the running do_learning
Progress == <<next_iteration, Stage, iteration>>

\* lexicographic order on progress
Before(p, q) ==
    \/ p[1] < q[1]
    \/ p[1] = q[1] /\ p[2] < q[2]
    \/ p[1] = q[1] /\ p[2] = q[2] /\ p[3] < q[3]

\* do_learning or do_evaluation is in a draw that does not return
Hung == pc \in {"hung", "hung_eval"}

\* the task the running (or hung) call draws from
DrawnTask == IF pc = "hung_eval" THEN test ELSE train

\* the guards of the actions of Step, taken together: the process is at a
\* position some action starts from (start, clone, sample, update,
\* validate, eval_sample, check and a hung draw have one unguarded action;
\* loop has one for either outcome of the xrange test), and at learn and
\* eval_learn the loop of do_learning has steps left or is just done
Ready ==
    \/ pc \in {"start", "loop", "clone", "sample", "update", "validate",
                "eval_sample", "check", "hung", "hung_eval"}
    \/ pc \in {"learn", "eval_learn"} /\ iteration <= Steps

\* C17 (amended): a process that meets no fatal error, is not terminated
\* from outside and samples no empty task terminates, having executed
\* exactly max(0, meta_iterations - start_meta_iteration) meta-iterations,
\* of indices start_meta_iteration .. meta_iterations - 1 in ascending
\* order, each with `iterations` base steps, one interpolation, on
\* evaluated iterations `test_iterations` base steps and one scoring per
\* pool.  Termination: every step but the spin of a hung draw moves the
\* process forward in a bounded well-founded order, a process not at its
\* end can take a step, and a draw hangs only on an empty task
C17_RunCompletes ==
    /\ [][~Hung => Before(Progress, Progress')]_vars
    /\ [](/\ next_iteration <= (IF args.meta_iterations
                                      > args.start_meta_iteration
                                  THEN args.meta_iterations
                                  ELSE args.start_meta_iteration)
          /\ iteration <= (IF args.iterations > args.test_iterations
                            THEN args.iterations ELSE args.test_iterations)
          /\ ~Ended => Ready
          /\ Hung => TaskLen(DrawnTask) = 0
          /\ pc = "update" =>
                 /\ iteration = args.iterations
                 /\ optimizer.step = state.step
                 /\ state.step = Len(hist.learned) * args.iterations
          /\ pc = "check" =>
                 /\ hist.learned = Executed(TRUE)
                 /\ hist.updated = Executed(TRUE)
                 /\ hist.evals # << >> =>
                        /\ hist.evals = <<0, 1>>
                        /\ iteration = args.test_iterations
                        /\ optimizer.step = state.step + args.test_iterations
          /\ pc = "done" =>
                 /\ hist.learned = Executed(TRUE)
                 /\ hist.updated = Executed(TRUE)
                 /\ Len(hist.updated) =
                        (IF args.meta_iterations > args.start_meta_iteration
                         THEN args.meta_iterations - args.start_meta_iteration
                         ELSE 0)
                 /\ \A k \in DOMAIN hist.updated :
                        hist.updated[k] = args.start_meta_iteration + k - 1)

\* C17 witness: a process has gone through three meta-iterations, of which
\* one was evaluated and checkpointed, and has stopped
C17_Witness ==
    /\ pc = "done"
    /\ args.validate_every = 2
    /\ hist.updated = <<999, 1000, 1001>>
    /\ hist.learned = hist.updated
    /\ DOMAIN files = {1000}
    /\ DOMAIN info["val_loss"] = {1000}
    /\ state.step = 3 * args.iterations

\* C17 as stated: every process that meets no fatal error and is not
\* terminated from outside comes to its end
C17_Terminates == <>Ended

====
